---- MODULE Spec2Model ----
(***************************************************************************)
(* Model of the Mongo-Migrate migration engine (src/migration.py) and of   *)
(* the socket handler that drives it (src/app.py).                         *)
(*                                                                         *)
(* Text is modelled as sequences of one-character strings, so that         *)
(* str.replace, str.join, str.strip, str.lower and the `in` substring test *)
(* are computed as Python computes them.                                   *)
(***************************************************************************)
EXTENDS Integers, Sequences, FiniteSets, TLC

(***************************************************************************)
(* Bounds of the model.                                                    *)
(***************************************************************************)
\* most output lines one child process writes
MaxLines == 1
\* the clock (int(time.time())) runs over 0..MaxTime
MaxTime == 1
\* most output lines one child process writes in the scenario that follows
\* single calls of run_command line by line
MaxCallLines == 3
\* longest uri among the arbitrary texts get_base_uri is applied to
MaxUriLen == 4

(***************************************************************************)
(* Python string primitives.                                               *)
(***************************************************************************)
\* s[i:] with a 1-based i
Drop(s, i) == SubSeq(s, i, Len(s))

\* s[:n]
Take(s, n) == SubSeq(s, 1, n)

\* s.startswith(p)
StartsWith(s, p) == Len(p) <= Len(s) /\ SubSeq(s, 1, Len(p)) = p

\* the least element of a non-empty set of integers
Least(S) == CHOOSE k \in S : \A j \in S : k <= j

\* the greatest element of a non-empty set of integers
Greatest(S) == CHOOSE k \in S : \A j \in S : k >= j

\* the positions of s, from i on, where an occurrence of p starts
Occurrences(s, p, i) ==
    {k \in i..(Len(s) - Len(p) + 1) : SubSeq(s, k, k + Len(p) - 1) = p}

\* s.find(p, i - 1) + 1: 1-based; 0 when p does not occur in s from i on
FindFrom(s, p, i) ==
    IF Occurrences(s, p, i) = {} THEN 0 ELSE Least(Occurrences(s, p, i))

Find(s, p) == FindFrom(s, p, 1)

\* p in s
Contains(s, p) == Find(s, p) # 0

\* s.replace(p, m) for a non-empty p: leftmost, non-overlapping occurrences,
\* the text that replaces an occurrence is not scanned again
RECURSIVE ReplaceFrom(_, _, _, _)
ReplaceFrom(s, p, m, i) ==
    LET j == FindFrom(s, p, i)
    IN  IF j = 0 THEN Drop(s, i)
        ELSE SubSeq(s, i, j - 1) \o m \o ReplaceFrom(s, p, m, j + Len(p))

Replace(s, p, m) == ReplaceFrom(s, p, m, 1)

\* sep.join(parts)
RECURSIVE Join(_, _)
Join(parts, sep) ==
    IF parts = <<>> THEN <<>>
    ELSE IF Len(parts) = 1 THEN parts[1]
    ELSE parts[1] \o sep \o Join(Tail(parts), sep)

UpperChars == <<"A","B","C","D","E","F","G","H","I","J","K","L","M",
                "N","O","P","Q","R","S","T","U","V","W","X","Y","Z">>
LowerChars == <<"a","b","c","d","e","f","g","h","i","j","k","l","m",
                "n","o","p","q","r","s","t","u","v","w","x","y","z">>
DigitChars == <<"0","1","2","3","4","5","6","7","8","9">>

Range(s) == {s[i] : i \in DOMAIN s}

LowerChar(c) ==
    IF c \in Range(UpperChars)
    THEN LowerChars[CHOOSE i \in DOMAIN UpperChars : UpperChars[i] = c]
    ELSE c

\* s.lower()
Lower(s) == [i \in DOMAIN s |-> LowerChar(s[i])]

IsSpace(c) == c \in {" ", "\t", "\n", "\r"}

\* the positions of s that hold a non-space character
NonSpace(s) == {i \in DOMAIN s : ~IsSpace(s[i])}

\* s.strip()
Strip(s) ==
    IF NonSpace(s) = {} THEN <<>>
    ELSE SubSeq(s, Least(NonSpace(s)), Greatest(NonSpace(s)))

\* str(n) for an integer n
RECURSIVE NatToStr(_)
NatToStr(n) ==
    IF n < 10 THEN <<DigitChars[n + 1]>>
    ELSE NatToStr(n \div 10) \o <<DigitChars[(n % 10) + 1]>>

IntToStr(n) == IF n < 0 THEN <<"-">> \o NatToStr(0 - n) ELSE NatToStr(n)

\* ", ".join / list membership helpers
InSeq(x, s) == \E i \in DOMAIN s : s[i] = x

(***************************************************************************)
(* urllib.parse.urlparse / urlunparse (CPython 3.11), as far as            *)
(* get_base_uri uses them.                                                 *)
(***************************************************************************)
SchemeChars == Range(UpperChars) \cup Range(LowerChars) \cup Range(DigitChars)
                 \cup {"+", "-", "."}

\* schemes of urllib.parse.uses_netloc that the model's alphabet can spell
UsesNetloc == { <<"h","t","t","p">>, <<"f","t","p">> }

\* smallest positive position of one of the characters cs in s, from i on;
\* Len(s) + 1 when there is none
FirstOf(s, cs, i) ==
    LET at == {k \in i..Len(s) : s[k] \in cs}
    IN  IF at = {} THEN Len(s) + 1 ELSE Least(at)

\* urlsplit step 1: the scheme, and the rest of the url after "scheme:"
HasScheme(u) ==
    LET i == FirstOf(u, {":"}, 1)
    IN  /\ i <= Len(u)
        /\ i > 1
        /\ u[1] \in Range(UpperChars) \cup Range(LowerChars)
        /\ \A k \in 1..(i - 1) : u[k] \in SchemeChars

SplitScheme(u) ==
    LET i == FirstOf(u, {":"}, 1)
    IN  IF HasScheme(u)
        THEN [scheme |-> Lower(Take(u, i - 1)), rest |-> Drop(u, i + 1)]
        ELSE [scheme |-> <<>>, rest |-> u]

\* urlsplit step 2: the netloc of a url that starts with "//"
SplitNetloc(rest) ==
    IF StartsWith(rest, <<"/", "/">>)
    THEN LET d == FirstOf(rest, {"/", "?", "#"}, 3)
         IN  [netloc |-> SubSeq(rest, 3, d - 1), rest |-> Drop(rest, d)]
    ELSE [netloc |-> <<>>, rest |-> rest]

\* netloc.partition('[')[2].partition(']')[0]
BracketedHost(netloc) ==
    LET open == Drop(netloc, Find(netloc, <<"[">>) + 1)
    IN  IF Contains(open, <<"]">>) THEN Take(open, Find(open, <<"]">>) - 1)
        ELSE open

\* _check_bracketed_host accepts the host: ipaddress.ip_address(host) is an
\* IPv6 address. Of the hosts spelled without a hexadecimal digit and
\* without "%", the only one is "::"; the model's uris hold no other
\* bracketed host.
IsIPv6(host) == host = <<":", ":">>

\* urlsplit raises ValueError on an unbalanced bracket in the netloc and on
\* a bracketed host that is not an IPv6 address
UrlparseRaises(u) ==
    LET n == SplitNetloc(SplitScheme(u).rest).netloc
    IN  \/ (InSeq("[", n) /\ ~InSeq("]", n))
        \/ (InSeq("]", n) /\ ~InSeq("[", n))
        \/ (InSeq("[", n) /\ InSeq("]", n) /\ ~IsIPv6(BracketedHost(n)))

\* urlparse(u) where it does not raise
Urlparse(u) ==
    LET sc == SplitScheme(u)
        nl == SplitNetloc(sc.rest)
        h  == FirstOf(nl.rest, {"#"}, 1)
        noFrag == Take(nl.rest, h - 1)
        frag == Drop(nl.rest, h + 1)
        q  == FirstOf(noFrag, {"?"}, 1)
    IN  [scheme |-> sc.scheme, netloc |-> nl.netloc,
         path |-> Take(noFrag, q - 1),
         query |-> Drop(noFrag, q + 1), fragment |-> frag]

\* urlunparse((scheme, netloc, path, '', query, fragment))
Urlunparse(scheme, netloc, path, query, fragment) ==
    LET u1 == IF netloc # <<>>
                 \/ (scheme # <<>> /\ scheme \in UsesNetloc
                       /\ ~StartsWith(path, <<"/", "/">>))
              THEN <<"/", "/">> \o netloc
                     \o (IF path # <<>> /\ path[1] # "/" THEN <<"/">> ELSE <<>>)
                     \o path
              ELSE path
        u2 == IF scheme # <<>> THEN scheme \o <<":">> \o u1 ELSE u1
        u3 == IF query # <<>> THEN u2 \o <<"?">> \o query ELSE u2
    IN  IF fragment # <<>> THEN u3 \o <<"#">> \o fragment ELSE u3

\* uri.split(sep, 1)[0] and [1]
Before(s, sep) == Take(s, Find(s, sep) - 1)
After(s, sep) == Drop(s, Find(s, sep) + Len(sep))

\* a variant of the except branch that loses the options after "?"
FallbackBaseUriNoOptions(uri) ==
    LET css == <<":", "/", "/">>
        base_part == IF Contains(uri, <<"?">>) THEN Before(uri, <<"?">>)
                     ELSE uri
    IN  IF Contains(base_part, css)
           /\ Contains(After(base_part, css), <<"/">>)
        THEN Before(base_part, css) \o css
               \o Before(After(base_part, css), <<"/">>) \o <<"/">>
        ELSE uri

\* the except branch of get_base_uri: the "simple split logic"
FallbackBaseUri(uri) ==
    LET css == <<":", "/", "/">>
    IN  IF Contains(uri, <<"?">>)
        THEN LET base_part == Before(uri, <<"?">>)
                 options == After(uri, <<"?">>)
             IN  IF Contains(base_part, css)
                    /\ Contains(After(base_part, css), <<"/">>)
                 THEN Before(base_part, css) \o css
                        \o Before(After(base_part, css), <<"/">>)
                        \o <<"/", "?">> \o options
                 ELSE uri
        ELSE IF Contains(uri, css) /\ Contains(After(uri, css), <<"/">>)
             THEN Before(uri, css) \o css
                    \o Before(After(uri, css), <<"/">>) \o <<"/">>
             ELSE uri

\* get_base_uri(uri); NoUri stands for None
NoUri == <<"None">>

\* a variant of lines 19-26 that passes an empty query to urlunparse
get_base_uri_NoQuery(uri) ==
    IF uri = NoUri \/ uri = <<>> THEN uri
    ELSE IF UrlparseRaises(uri) THEN FallbackBaseUri(uri)
    ELSE LET parsed == Urlparse(uri)
         IN  Urlunparse(parsed.scheme, parsed.netloc, <<"/">>,
                        <<>>, parsed.fragment)

get_base_uri(uri) ==
    IF uri = NoUri \/ uri = <<>> THEN uri
    ELSE IF UrlparseRaises(uri) THEN FallbackBaseUri(uri)
    ELSE LET parsed == Urlparse(uri)
         IN  Urlunparse(parsed.scheme, parsed.netloc, <<"/">>,
                        parsed.query, parsed.fragment)

(***************************************************************************)
(* Text constants of src/migration.py.                                     *)
(***************************************************************************)
Mask == <<"*","*","*","*","*","*">>
S_mongodump == <<"m","o","n","g","o","d","u","m","p">>
S_mongorestore == <<"m","o","n","g","o","r","e","s","t","o","r","e">>
S_uri == <<"-","-","u","r","i">>
S_out == <<"-","-","o","u","t">>
S_drop == <<"-","-","d","r","o","p">>
S_numParallelCollections == <<"-","-","n","u","m","P","a","r","a","l","l",
    "e","l","C","o","l","l","e","c","t","i","o","n","s">>
S_numInsertionWorkers == <<"-","-","n","u","m","I","n","s","e","r","t","i",
    "o","n","W","o","r","k","e","r","s","P","e","r","C","o","l","l","e","c",
    "t","i","o","n">>
S_nsInclude == <<"-","-","n","s","I","n","c","l","u","d","e","=">>
S_nsFrom == <<"-","-","n","s","F","r","o","m">>
S_nsTo == <<"-","-","n","s","T","o">>
S_dotStar == <<".","*">>
S_tmpPrefix == <<"/","t","m","p","/","m","i","g","r","a","t","i","o","n",
    "_">>
S_writingMetadata == <<"w","r","i","t","i","n","g"," ","m","e","t","a","d",
    "a","t","a">>
S_restoringMetadata == <<"r","e","s","t","o","r","i","n","g"," ","m","e","t",
    "a","d","a","t","a">>
S_restoring == <<"r","e","s","t","o","r","i","n","g">>
S_collection == <<"c","o","l","l","e","c","t","i","o","n">>
S_index == <<"i","n","d","e","x">>
S_creating == <<"c","r","e","a","t","i","n","g">>
S_building == <<"b","u","i","l","d","i","n","g">>
S_processFailed == <<"P","r","o","c","e","s","s"," ","f","a","i","l","e","d",
    " ","(","E","x","i","t"," ","c","o","d","e",":"," ">>
S_toolPrefix == <<"E","R","R","O","R",":"," ","M","o","n","g","o","D","B",
    " ","t","o","o","l"," ","'">>
S_toolSuffix == <<"'"," ","n","o","t"," ","f","o","u","n","d"," ","i","n",
    " ","s","y","s","t","e","m"," ","p","a","t","h",".">>
S_completed == <<"F","u","l","l"," ","m","i","g","r","a","t","i","o","n"," ",
    "c","o","m","p","l","e","t","e","d"," ","s","u","c","c","e","s","s","f",
    "u","l","l","y","!">>
\* str(KeyError('uri'))
S_keyErrorUri == <<"'","u","r","i","'">>
\* the text of a pymongo connection error
S_connRefused == <<"c","o","n","n","e","c","t","i","o","n"," ","r","e","f",
    "u","s","e","d">>

(***************************************************************************)
(* run_command: redaction, phase classification, exit handling.            *)
(* A log event is [kind, tag, text]: kind and tag stand for the fixed text *)
(* of the message, text is the part of it that varies.                     *)
(***************************************************************************)
Event(kind, tag, text) == [kind |-> kind, tag |-> tag, text |-> text]

\* lines 55-57 and 90-92: the patterns are applied one after the other, in
\* list order, each to the result of the one before; empty ones are skipped
RECURSIVE Redact(_, _)
Redact(text, redact_patterns) ==
    IF redact_patterns = <<>> THEN text
    ELSE Redact(IF Head(redact_patterns) # <<>>
                THEN Replace(text, Head(redact_patterns), Mask)
                ELSE text,
                Tail(redact_patterns))

\* lines 54-59
DebugEvent(command, redact_patterns) ==
    Event("DEBUG", "command", Redact(Join(command, <<" ">>), redact_patterns))

\* lines 76-88: the marker category of an output line, "NONE" without one
Classify(output) ==
    LET lower_out == Lower(output)
    IN  IF Contains(lower_out, S_writingMetadata)
           \/ Contains(lower_out, S_restoringMetadata) THEN "METADATA"
        ELSE IF Contains(lower_out, S_restoring)
                /\ Contains(lower_out, S_collection) THEN "DATA"
        ELSE IF Contains(lower_out, S_index)
                /\ (Contains(lower_out, S_creating)
                    \/ Contains(lower_out, S_building)) THEN "INDEX"
        ELSE "NONE"

\* a variant of lines 73-93 that never assigns current_phase
PhaseAfterUnset(line, current_phase) == current_phase

\* lines 73-93: the phase kept after one line (current_phase)
PhaseAfter(line, current_phase) ==
    IF Strip(line) = <<>> \/ Classify(Strip(line)) = "NONE"
    THEN current_phase
    ELSE Classify(Strip(line))

\* a variant of lines 73-93 that forwards a line only when it emits no
\* phase event for it
LineEventsSkipsMarked(line, current_phase, redact_patterns) ==
    LET output == Strip(line)
        cat == Classify(output)
    IN  IF output = <<>> THEN <<>>
        ELSE IF cat # "NONE" /\ cat # current_phase
             THEN <<Event("PHASE", cat, <<>>)>>
             ELSE <<Event("LINE", "output", Redact(output, redact_patterns))>>

\* lines 73-93: the events one line of output adds to the sink
LineEvents(line, current_phase, redact_patterns) ==
    LET output == Strip(line)
        cat == Classify(output)
    IN  IF output = <<>> THEN <<>>
        ELSE (IF cat # "NONE" /\ cat # current_phase
              THEN <<Event("PHASE", cat, <<>>)>> ELSE <<>>)
             \o <<Event("LINE", "output", Redact(output, redact_patterns))>>

\* a variant of line 96 that fails only on codes above 1
ReturnCodeFailsAboveOne(returncode) == returncode > 1

\* line 96
ReturnCodeFails(returncode) == returncode # 0

\* line 98: str of the exception raised on a non-zero exit
ProcessFailedMsg(returncode) ==
    S_processFailed \o IntToStr(returncode) \o <<")">>

\* lines 97-98 and 103-105: the raise of line 98 is caught by the generic
\* handler of the same try, which logs once more and re-raises
ExitFailureEvents(returncode) ==
    << Event("ERROR", "exited", IntToStr(returncode)),
       Event("ERROR", "execution failed", ProcessFailedMsg(returncode)) >>

\* line 100
ToolNotFoundMsg(command) == S_toolPrefix \o command[1] \o S_toolSuffix

\* a variant of lines 99-105 where the error also passes through the
\* generic handler, as the non-zero exit does
SpawnFailureEventsTwice(command) ==
    << Event("ERROR", "tool not found", ToolNotFoundMsg(command)),
       Event("ERROR", "execution failed", ToolNotFoundMsg(command)) >>

\* lines 99-102
SpawnFailureEvents(command) ==
    << Event("ERROR", "tool not found", ToolNotFoundMsg(command)) >>

\* a variant of line 72 that stops reading as soon as the child has closed
\* its output, whatever is still unread
StreamEOFUnread(child) == child.st \in {"closed", "exited"}

\* line 72: the output stream is at end of file once the child has closed
\* it and everything written has been read
StreamEOF(child) == child.pipe = <<>> /\ child.st \in {"closed", "exited"}

\* a variant of line 95 that does not wait for the child
WaitReturnsAtOnce(child) == TRUE

\* line 95: process.wait() returns once the child has exited
WaitReturns(child) == child.st = "exited"

(***************************************************************************)
(* migrate_db: the pieces of one attempt.                                  *)
(***************************************************************************)
\* line 109: the workspace path of an attempt started at second stamp
TempDir(stamp) == S_tmpPrefix \o IntToStr(stamp)

\* truthiness of source.get('uri')
UriGiven(endpoint) == endpoint.uri # NoUri /\ endpoint.uri # <<>>

\* lines 113-114
OwnUris(source, target) ==
    (IF UriGiven(source) THEN <<source.uri>> ELSE <<>>)
      \o (IF UriGiven(target) THEN <<target.uri>> ELSE <<>>)

\* lines 121-122: a base uri is added unless it is already a pattern
WithBase(patterns, base_uri) ==
    IF InSeq(base_uri, patterns) THEN patterns ELSE Append(patterns, base_uri)

\* lines 112-122
RedactPatterns(source, target, base_source, base_target) ==
    WithBase(WithBase(OwnUris(source, target), base_source), base_target)

\* os.cpu_count() returning None
NoCount == 0 - 1

\* a variant of line 129 without the upper limit
ConcurrencyUncapped(cpu_count) ==
    LET cores == IF cpu_count = NoCount \/ cpu_count = 0 THEN 4 ELSE cpu_count
    IN  IF cores > 4 THEN cores ELSE 4

\* lines 128-129; a cpu_count of None or 0 is falsy
Concurrency(cpu_count) ==
    LET cores == IF cpu_count = NoCount \/ cpu_count = 0 THEN 4 ELSE cpu_count
        capped == IF cores < 16 THEN cores ELSE 16
    IN  IF capped > 4 THEN capped ELSE 4

\* lines 141-142
RECURSIVE NsIncludeArgs(_)
NsIncludeArgs(target_dbs) ==
    IF target_dbs = <<>> THEN <<>>
    ELSE <<S_nsInclude \o Head(target_dbs) \o S_dotStar>>
           \o NsIncludeArgs(Tail(target_dbs))

\* lines 133-150
DumpCmd(source_uri, temp_dir, concurrency, target_dbs) ==
    << S_mongodump, S_uri, source_uri, S_out, temp_dir,
       S_numParallelCollections, IntToStr(concurrency) >>
      \o NsIncludeArgs(target_dbs)

\* lines 156-163
RestoreCmd(target_uri, temp_dir, concurrency) ==
    << S_mongorestore, S_uri, target_uri, S_drop,
       S_numParallelCollections, IntToStr(concurrency),
       S_numInsertionWorkers, IntToStr(concurrency), temp_dir >>

\* lines 125-134/144 and line 59: what is logged up to the dump's Popen
DumpPrologue(command, concurrency, target_dbs, redact_patterns) ==
    << Event("PHASE", "DISCOVERY", <<>>),
       Event("INFO", "tuning", IntToStr(concurrency)),
       Event("PHASE", "DUMPING", Join(target_dbs, <<",", " ">>)),
       DebugEvent(command, redact_patterns) >>

\* line 155 and line 59: what is logged up to the restore's Popen
RestorePrologue(command, redact_patterns) ==
    << Event("PHASE", "RESTORING", <<>>),
       DebugEvent(command, redact_patterns) >>

\* lines 172-178 on a target that answers with n non-system databases
ValidationEvents(n) ==
    << Event("INFO", "complete", <<>>),
       Event("PHASE", "VALIDATION", <<>>),
       Event("PHASE", "SUCCESS", IntToStr(n)) >>

\* lines 172-176 when the target does not answer
ValidationFailedEvents ==
    << Event("INFO", "complete", <<>>),
       Event("PHASE", "VALIDATION", <<>>) >>

\* line 182
StoppedEvent(message) == Event("ERROR", "Migration Stopped", message)

\* what migrate_db returns or raises
NoRet == [kind |-> "none", success |-> FALSE, message |-> <<>>]
Returned(success, message) ==
    [kind |-> "returned", success |-> success, message |-> message]
Raised(message) == [kind |-> "raised", success |-> FALSE, message |-> message]

\* a child process: st is none, running, closed (stdout closed, not yet
\* exited) or exited; lines holds every line it has written, pipe those
\* not yet read
NoCode == 0 - 1
NoChild == [st |-> "none", code |-> NoCode, pipe |-> <<>>, written |-> 0,
            lines |-> <<>>, cmd |-> <<>>]
Spawned(command) == [st |-> "running", code |-> NoCode, pipe |-> <<>>,
                     written |-> 0, lines |-> <<>>, cmd |-> command]
NotSpawned(command) == [st |-> "nospawn", code |-> NoCode, pipe |-> <<>>,
                        written |-> 0, lines |-> <<>>, cmd |-> command]

\* a variant of lines 186-187 that never deletes the directory
AfterReleaseKeeps(existing, stamp, rmtree_ok) == existing

\* lines 186-187: the directories left by the release of workspace stamp;
\* rmtree either removes the directory or fails and leaves it
AfterRelease(existing, stamp, rmtree_ok) ==
    IF stamp \in existing /\ rmtree_ok THEN existing \ {stamp} ELSE existing

ReleaseOutcome(existing, stamp, rmtree_ok) ==
    IF stamp \notin existing THEN "absent"
    ELSE IF rmtree_ok THEN "removed" ELSE "failed"

\* str of the OSError of a failed rmtree
S_notEmpty == <<"D","i","r","e","c","t","o","r","y"," ","n","o","t"," ","e",
    "m","p","t","y">>

\* a variant of lines 185-188 without the except clause: the error of
\* rmtree leaves migrate_db in place of its result
ReleaseResultRaises(result, outcome) ==
    IF outcome = "failed" THEN Raised(S_notEmpty) ELSE result

\* lines 185-188: "except: pass" drops the error of rmtree, and what the
\* try or except clause returned stays the result
ReleaseResult(result, outcome) == result

(***************************************************************************)
(* Inputs: the requests a client sends and what the environment answers.   *)
(* Scenario "multi" runs concurrent attempts on few inputs, scenario "one" *)
(* runs a single attempt on many.                                          *)
(***************************************************************************)
UriA == <<"m",":","/","/","h","/","d">>
UriStar == <<"m",":","/","/","h","/","d","?","*">>
UriT == <<"m",":","/","/","t","/">>
LinePlain == <<"d","o","n","e">>
LineBlank == <<" ">>
LineUri == <<"a","t"," ","m",":","/","/","h","/","d">>
LineStar == <<"m",":","/","/","h","/","d","?","m",":","/","/","h","/","d",
    "?","*">>
LineMetadata == <<"W","r","i","t","i","n","g"," ","M","e","t","a","d","a",
    "t","a">>
\* a padded line of the DATA category that names the source uri
LineDataUri == <<" ","R","e","s","t","o","r","i","n","g"," ","c","o","l","l",
    "e","c","t","i","o","n"," ","m",":","/","/","h","/","d"," ">>
DbApp == <<"a","p","p">>
DbAppCopy == <<"a","p","p","_","c","o","p","y">>
DbSales == <<"s","a","l","e","s">>
DbHr == <<"h","r">>
DbAdmin == <<"a","d","m","i","n">>

Endpoint(name, uri, dbname) ==
    [present |-> TRUE, name |-> name, uri |-> uri, dbname |-> dbname]
\* data without the 'source' (or 'target') key
AbsentEndpoint ==
    [present |-> FALSE, name |-> "", uri |-> NoUri, dbname |-> <<>>]

Request(source, target, databases, mode) ==
    [source |-> source, target |-> target, databases |-> databases,
     mode |-> mode]

ReqWhole == Request(Endpoint("src", UriA, <<>>), Endpoint("dst", UriT, <<>>),
                    <<>>, "WholeInstance")
ReqSelected == Request(Endpoint("src", UriA, <<>>), Endpoint("dst", UriT, <<>>),
                       <<DbSales, DbHr>>, "WholeInstance")
ReqAdmin == Request(Endpoint("src", UriA, <<>>), Endpoint("dst", UriT, <<>>),
                    <<DbSales, DbAdmin>>, "WholeInstance")
ReqStar == Request(Endpoint("src", UriStar, <<>>), Endpoint("dst", UriT, <<>>),
                   <<>>, "WholeInstance")
ReqSame == Request(Endpoint("src", UriA, DbApp), Endpoint("dst", UriT, DbApp),
                   <<>>, "SingleDatabase")
ReqRename == Request(Endpoint("src", UriA, DbApp),
                     Endpoint("dst", UriT, DbAppCopy), <<>>, "SingleDatabase")
ReqEmptyDb == Request(Endpoint("src", UriA, <<>>), Endpoint("dst", UriT, DbApp),
                      <<>>, "SingleDatabase")
ReqNoUri == Request(Endpoint("src", NoUri, <<>>), Endpoint("dst", UriT, <<>>),
                    <<>>, "WholeInstance")
ReqNoSource == Request(AbsentEndpoint, Endpoint("dst", UriT, <<>>),
                       <<>>, "WholeInstance")

Attempts == {1, 2}
Scenarios == {"multi", "ids", "one", "lines", "uri"}

\* the attempts a scenario starts
Starters(s) == IF s \in {"multi", "ids"} THEN Attempts ELSE {1}

Requests(s) ==
    IF s = "multi" THEN {ReqWhole, ReqNoUri}
    ELSE IF s \in {"ids", "lines"} THEN {ReqWhole}
    ELSE {ReqWhole, ReqSelected, ReqAdmin, ReqStar, ReqSame, ReqRename,
          ReqEmptyDb, ReqNoUri, ReqNoSource}

\* the lines a child process may write
OutputLines(s) ==
    IF s \in {"multi", "ids"} THEN {LinePlain}
    ELSE IF s = "lines" THEN {LineMetadata, LineDataUri}
    ELSE {LinePlain, LineBlank, LineUri, LineStar, LineMetadata}

\* the most lines a child process writes
LineCap(s) == IF s = "lines" THEN MaxCallLines ELSE MaxLines

\* the exit codes of a child process
ExitCodes(s) == IF s \in {"multi", "ids", "lines"} THEN {0, 1} ELSE {0, 1, 2}

\* what os.cpu_count() reports
CoreCounts(s) ==
    IF s \in {"multi", "ids", "lines"} THEN {8} ELSE {NoCount, 0, 1, 8, 32}

\* what secrets.token_hex(4) returns to attempt a: any token in scenario
\* "ids", a token of the attempt's own in the others
Tokens == <<"1f0a9c3e", "b47d2e80">>
TokenIds(s, a) == IF s = "ids" THEN Range(Tokens) ELSE {Tokens[a]}

\* the number of non-system databases the target lists at validation
DbCounts(s) == IF s \in {"multi", "ids", "lines"} THEN {1} ELSE {0, 2}

\* the uris get_base_uri is applied to on its own (scenario "uri")
UriChars == {"m", "h", ":", "/", "?", "#", "[", "]"}

\* every text of at most MaxUriLen characters
ShortUris == UNION {[1..n -> UriChars] : n \in 0..MaxUriLen}

\* the same texts behind a scheme and "//"
S_schemeSlashes == <<"m", ":", "/", "/">>
PrefixedUris == {S_schemeSlashes \o t : t \in ShortUris}

\* the parts of a connection uri: "" stands for an absent query or fragment
UriSchemes == { <<"m">>, <<"M">> }
UriAuthorities == { <<"h">>, <<"u",":","p","@","h",":","1">>,
                    <<"h",",","t",":","1">>, <<"[",":",":","]">> }
BadAuthorities == { <<"[","h">>, <<"[","h","]">> }
UriDatabases == { <<"d">>, <<"d","/","c">> }
UriQueries == { <<>>, <<"q">>, <<"a","=","b","&","c","=","d">>,
                <<"x","?","y">> }
UriFragments == { <<>>, <<"f">> }

\* scheme://authority/database[?query][#fragment]
ComposeUri(scheme, authority, database, query, fragment) ==
    scheme \o <<":", "/", "/">> \o authority \o <<"/">> \o database
      \o (IF query # <<>> THEN <<"?">> \o query ELSE <<>>)
      \o (IF fragment # <<>> THEN <<"#">> \o fragment ELSE <<>>)

\* the uris with a database segment
DatabaseUris ==
    {ComposeUri(sc, au, db, q, f) :
        sc \in UriSchemes, au \in UriAuthorities \cup BadAuthorities,
        db \in UriDatabases, q \in UriQueries, f \in UriFragments}

UriInputs == ShortUris \cup PrefixedUris \cup DatabaseUris

(***************************************************************************)
(* State.                                                                  *)
(***************************************************************************)
VARIABLES
    scn,                \* the scenario of this run
    uri,                \* the argument of a get_base_uri call
    stripped,           \* what get_base_uri returned, call after call
    migration_id,       \* app.py: each attempt's migration_id
    clock,              \* int(time.time())
    dirs,               \* the stamps whose /tmp/migration_<stamp> exists
    active_migrations,  \* app.py: migration id -> entry
    pc,                 \* where each attempt is
    req,                \* the data of each attempt's start_migration
    temp_dir,           \* the stamp of each attempt's workspace
    source_uri,         \* migrate_db's source_uri (line 117)
    target_uri,         \* migrate_db's target_uri (line 118)
    redact_patterns,    \* migrate_db's redact_patterns (lines 112-122)
    conc,               \* each attempt's concurrency
    current_phase,      \* run_command's current_phase
    dump,               \* each attempt's dump child process
    restore,            \* each attempt's restore child process
    log,                \* the migration_log events of each attempt
    ret,                \* what migrate_db returned or raised
    released,           \* what the finally clause of migrate_db did
    complete            \* the migration_complete events of each attempt

vars == <<scn, uri, stripped, migration_id, clock, dirs, active_migrations,
          pc, req, temp_dir,
          source_uri, target_uri, redact_patterns, conc, current_phase,
          dump, restore, log, ret, released, complete>>

\* the state of the runs of get_base_uri on its own
normalizer == <<uri, stripped>>

\* the locals of migrate_db that lines 112-122 set
prepared == <<source_uri, target_uri, redact_patterns>>

NoStamp == 0 - 1
NoId == ""

InitIn(s) ==
    /\ scn = s
    /\ uri \in (IF s = "uri" THEN UriInputs ELSE {<<>>})
    /\ stripped = <<>>
    /\ migration_id = [a \in Attempts |-> NoId]
    /\ clock = 0
    /\ dirs = {}
    /\ active_migrations = <<>>
    /\ pc = [a \in Attempts |-> "idle"]
    /\ req = [a \in Attempts |-> ReqWhole]
    /\ temp_dir = [a \in Attempts |-> NoStamp]
    /\ source_uri = [a \in Attempts |-> NoUri]
    /\ target_uri = [a \in Attempts |-> NoUri]
    /\ redact_patterns = [a \in Attempts |-> <<>>]
    /\ conc = [a \in Attempts |-> 0]
    /\ current_phase = [a \in Attempts |-> "NONE"]
    /\ dump = [a \in Attempts |-> NoChild]
    /\ restore = [a \in Attempts |-> NoChild]
    /\ log = [a \in Attempts |-> <<>>]
    /\ ret = [a \in Attempts |-> NoRet]
    /\ released = [a \in Attempts |-> "none"]
    /\ complete = [a \in Attempts |-> <<>>]

Init == InitIn("multi")
InitOne == InitIn("one")
InitIds == InitIn("ids")
InitLines == InitIn("lines")

(***************************************************************************)
(* Actions.                                                                *)
(***************************************************************************)
\* lines 181-183: an exception caught at the boundary of migrate_db, after
\* the events that were logged on the way
FailWith(a, events, message) ==
    /\ log' = [log EXCEPT ![a] = @ \o events \o <<StoppedEvent(message)>>]
    /\ ret' = [ret EXCEPT ![a] = Returned(FALSE, message)]
    /\ pc' = [pc EXCEPT ![a] = "finally"]

\* app.py lines 119-155: handle_migration. A missing 'source' or 'target'
\* raises KeyError out of the handler before anything is registered.
StartMigration(a) ==
    /\ pc[a] = "idle"
    /\ a \in Starters(scn)
    /\ \E data \in Requests(scn), id \in TokenIds(scn, a) :
        /\ migration_id' = [migration_id EXCEPT ![a] = id]
        /\ req' = [req EXCEPT ![a] = data]
        /\ IF data.source.present /\ data.target.present
           THEN /\ active_migrations' =
                     [k \in DOMAIN active_migrations \cup {id} |->
                        IF k = id
                        THEN [source |-> data.source.name,
                              target |-> data.target.name,
                              status |-> "running"]
                        ELSE active_migrations[k]]
                /\ pc' = [pc EXCEPT ![a] = "queued"]
           ELSE /\ pc' = [pc EXCEPT ![a] = "rejected"]
                /\ UNCHANGED active_migrations
    /\ UNCHANGED <<normalizer, prepared, scn, clock, dirs, temp_dir, conc,
                   current_phase, dump, restore, log, ret, released, complete>>

\* migration.py lines 109-122: the workspace is created, then the
\* redaction patterns are prepared; source['uri'] raises KeyError, outside
\* the try, for an endpoint without a uri
Acquire(a) ==
    /\ pc[a] = "queued"
    /\ temp_dir' = [temp_dir EXCEPT ![a] = clock]
    /\ dirs' = dirs \cup {clock}
    /\ IF req[a].source.uri = NoUri \/ req[a].target.uri = NoUri
       THEN /\ ret' = [ret EXCEPT ![a] = Raised(S_keyErrorUri)]
            /\ pc' = [pc EXCEPT ![a] = "raised"]
            /\ UNCHANGED prepared
       ELSE /\ source_uri' = [source_uri EXCEPT ![a] =
                                get_base_uri(req[a].source.uri)]
            /\ target_uri' = [target_uri EXCEPT ![a] =
                                get_base_uri(req[a].target.uri)]
            /\ redact_patterns' = [redact_patterns EXCEPT ![a] =
                 RedactPatterns(req[a].source, req[a].target,
                                source_uri'[a], target_uri'[a])]
            /\ pc' = [pc EXCEPT ![a] = "try"]
            /\ UNCHANGED ret
    /\ UNCHANGED <<normalizer, scn, migration_id, clock, active_migrations,
                   req, conc, current_phase, dump, restore, log, released,
                   complete>>

\* lines 125-152 up to the Popen of run_command (lines 54-69)
BeginDump(a) ==
    /\ pc[a] = "try"
    /\ \E cpu_count \in CoreCounts(scn) :
        conc' = [conc EXCEPT ![a] = Concurrency(cpu_count)]
    /\ \E found \in BOOLEAN :
        IF found
        THEN /\ dump' = [dump EXCEPT ![a] =
                   Spawned(DumpCmd(source_uri[a], TempDir(temp_dir[a]),
                                   conc'[a], req[a].databases))]
             /\ log' = [log EXCEPT ![a] =
                   @ \o DumpPrologue(dump'[a].cmd, conc'[a],
                                     req[a].databases, redact_patterns[a])]
             /\ pc' = [pc EXCEPT ![a] = "dumping"]
             /\ UNCHANGED ret
        ELSE /\ dump' = [dump EXCEPT ![a] =
                   NotSpawned(DumpCmd(source_uri[a], TempDir(temp_dir[a]),
                                      conc'[a], req[a].databases))]
             /\ FailWith(a, DumpPrologue(dump'[a].cmd, conc'[a],
                                         req[a].databases, redact_patterns[a])
                              \o SpawnFailureEvents(dump'[a].cmd),
                         ToolNotFoundMsg(dump'[a].cmd))
    /\ current_phase' = [current_phase EXCEPT ![a] = "NONE"]
    /\ UNCHANGED <<normalizer, prepared, scn, migration_id,
                   clock, dirs, active_migrations, req,
                   temp_dir, restore, released, complete>>

\* the child process that attempt a is reading from
Reading(a) == pc[a] \in {"dumping", "restoring"}
ChildOf(a) == IF pc[a] = "dumping" THEN dump[a] ELSE restore[a]

SetChild(a, child) ==
    IF pc[a] = "dumping"
    THEN dump' = [dump EXCEPT ![a] = child] /\ UNCHANGED restore
    ELSE restore' = [restore EXCEPT ![a] = child] /\ UNCHANGED dump

\* the child process writes a line to its output
ChildWrite(a) ==
    /\ Reading(a)
    /\ ChildOf(a).st = "running"
    /\ ChildOf(a).written < LineCap(scn)
    /\ \E line \in OutputLines(scn) :
        SetChild(a, [ChildOf(a) EXCEPT !.pipe = Append(@, line),
                                       !.lines = Append(@, line),
                                       !.written = @ + 1])
    /\ UNCHANGED <<normalizer, prepared, scn, migration_id,
                   clock, dirs, active_migrations, pc, req,
                   temp_dir, conc, current_phase, log, ret, released, complete>>

\* the child process closes its output
ChildClose(a) ==
    /\ Reading(a)
    /\ ChildOf(a).st = "running"
    /\ SetChild(a, [ChildOf(a) EXCEPT !.st = "closed"])
    /\ UNCHANGED <<normalizer, prepared, scn, migration_id,
                   clock, dirs, active_migrations, pc, req,
                   temp_dir, conc, current_phase, log, ret, released, complete>>

\* the child process exits
ChildExit(a) ==
    /\ Reading(a)
    /\ ChildOf(a).st = "closed"
    /\ \E code \in ExitCodes(scn) :
        SetChild(a, [ChildOf(a) EXCEPT !.st = "exited", !.code = code])
    /\ UNCHANGED <<normalizer, prepared, scn, migration_id,
                   clock, dirs, active_migrations, pc, req,
                   temp_dir, conc, current_phase, log, ret, released, complete>>

\* lines 72-93: run_command reads one line of output
ReadLine(a) ==
    /\ Reading(a)
    /\ ChildOf(a).pipe # <<>>
    /\ LET line == Head(ChildOf(a).pipe)
       IN  /\ log' = [log EXCEPT ![a] =
                        @ \o LineEvents(line, current_phase[a],
                                        redact_patterns[a])]
           /\ current_phase' = [current_phase EXCEPT ![a] =
                                  PhaseAfter(line, current_phase[a])]
    /\ SetChild(a, [ChildOf(a) EXCEPT !.pipe = Tail(@)])
    /\ UNCHANGED <<normalizer, prepared, scn, migration_id,
                   clock, dirs, active_migrations, pc, req,
                   temp_dir, conc, ret, released, complete>>

\* lines 95-98 for the dump, then lines 155-170 up to the restore's Popen
DumpReturns(a) ==
    /\ pc[a] = "dumping"
    /\ StreamEOF(dump[a])
    /\ WaitReturns(dump[a])
    /\ IF ReturnCodeFails(dump[a].code)
       THEN /\ FailWith(a, ExitFailureEvents(dump[a].code),
                        ProcessFailedMsg(dump[a].code))
            /\ UNCHANGED restore
       ELSE \E found \in BOOLEAN :
             IF found
             THEN /\ restore' = [restore EXCEPT ![a] =
                        Spawned(RestoreCmd(target_uri[a], TempDir(temp_dir[a]),
                                           conc[a]))]
                  /\ log' = [log EXCEPT ![a] =
                        @ \o RestorePrologue(restore'[a].cmd,
                                             redact_patterns[a])]
                  /\ pc' = [pc EXCEPT ![a] = "restoring"]
                  /\ UNCHANGED ret
             ELSE /\ restore' = [restore EXCEPT ![a] =
                        NotSpawned(RestoreCmd(target_uri[a],
                                              TempDir(temp_dir[a]), conc[a]))]
                  /\ FailWith(a, RestorePrologue(restore'[a].cmd,
                                                 redact_patterns[a])
                                   \o SpawnFailureEvents(restore'[a].cmd),
                              ToolNotFoundMsg(restore'[a].cmd))
    /\ current_phase' = [current_phase EXCEPT ![a] = "NONE"]
    /\ UNCHANGED <<normalizer, prepared, scn, migration_id,
                   clock, dirs, active_migrations, req,
                   temp_dir, conc, dump, released, complete>>

\* lines 95-98 for the restore, then lines 172-183
RestoreReturns(a) ==
    /\ pc[a] = "restoring"
    /\ StreamEOF(restore[a])
    /\ WaitReturns(restore[a])
    /\ IF ReturnCodeFails(restore[a].code)
       THEN FailWith(a, ExitFailureEvents(restore[a].code),
                     ProcessFailedMsg(restore[a].code))
       ELSE \E answers \in BOOLEAN, n \in DbCounts(scn) :
             IF answers
             THEN /\ log' = [log EXCEPT ![a] = @ \o ValidationEvents(n)]
                  /\ ret' = [ret EXCEPT ![a] = Returned(TRUE, S_completed)]
                  /\ pc' = [pc EXCEPT ![a] = "finally"]
             ELSE FailWith(a, ValidationFailedEvents, S_connRefused)
    /\ UNCHANGED <<normalizer, prepared, scn, migration_id,
                   clock, dirs, active_migrations, req,
                   temp_dir, conc, current_phase, dump, restore, released,
                   complete>>

\* lines 184-188: the finally clause; a failure of rmtree is swallowed
Release(a) ==
    /\ pc[a] = "finally"
    /\ \E rmtree_ok \in BOOLEAN :
        /\ dirs' = AfterRelease(dirs, temp_dir[a], rmtree_ok)
        /\ released' = [released EXCEPT ![a] =
                          ReleaseOutcome(dirs, temp_dir[a], rmtree_ok)]
    /\ ret' = [ret EXCEPT ![a] = ReleaseResult(@, released'[a])]
    /\ pc' = [pc EXCEPT ![a] =
                IF ret'[a].kind = "raised" THEN "raised" ELSE "returned"]
    /\ UNCHANGED <<normalizer, prepared, scn, migration_id,
                   clock, active_migrations, req, temp_dir,
                   conc, current_phase, dump, restore, log, complete>>

\* app.py lines 139-143 and 145-149: the migration_complete event
CompleteEvent(id, outcome) ==
    [id |-> id, success |-> outcome.success, message |-> outcome.message]

\* app.py lines 138-152: run_migration after migrate_db returned or raised
Complete(a) ==
    /\ pc[a] \in {"returned", "raised"}
    /\ complete' = [complete EXCEPT ![a] =
                      Append(@, CompleteEvent(migration_id[a], ret[a]))]
    /\ active_migrations' =
         [k \in DOMAIN active_migrations \ {migration_id[a]} |->
            active_migrations[k]]
    /\ pc' = [pc EXCEPT ![a] = "done"]
    /\ UNCHANGED <<normalizer, prepared, scn, migration_id,
                   clock, dirs, req, temp_dir, conc,
                   current_phase, dump, restore, log, ret, released>>

\* a second passes; the clock is read only by attempts yet to acquire
Tick ==
    /\ clock < MaxTime
    /\ \E a \in Starters(scn) : pc[a] \in {"idle", "queued"}
    /\ clock' = clock + 1
    /\ UNCHANGED <<normalizer, prepared, scn, migration_id,
                   dirs, active_migrations, pc, req, temp_dir,
                   conc, current_phase, dump, restore, log, ret, released,
                   complete>>

Next ==
    \/ Tick
    \/ \E a \in Attempts :
        \/ StartMigration(a)
        \/ Acquire(a)
        \/ BeginDump(a)
        \/ ChildWrite(a)
        \/ ChildClose(a)
        \/ ChildExit(a)
        \/ ReadLine(a)
        \/ DumpReturns(a)
        \/ RestoreReturns(a)
        \/ Release(a)
        \/ Complete(a)

\* concurrent attempts
Spec == Init /\ [][Next]_vars

\* one attempt, on more inputs
SpecOne == InitOne /\ [][Next]_vars

\* concurrent attempts whose migration ids are drawn freely
SpecIds == InitIds /\ [][Next]_vars

\* one attempt whose child processes write more lines
SpecLines == InitLines /\ [][Next]_vars

(***************************************************************************)
(* get_base_uri on its own: its calls in scenario "uri".                   *)
(***************************************************************************)
InitUri == InitIn("uri")

\* get_base_uri(uri)
StripDatabase ==
    /\ scn = "uri"
    /\ stripped = <<>>
    /\ stripped' = <<get_base_uri(uri)>>
    /\ UNCHANGED <<prepared, scn, uri, migration_id, clock, dirs,
                   active_migrations, pc, req, temp_dir, conc, current_phase,
                   dump, restore, log, ret, released, complete>>

\* get_base_uri(get_base_uri(uri))
StripAgain ==
    /\ scn = "uri"
    /\ Len(stripped) = 1
    /\ stripped' = Append(stripped, get_base_uri(stripped[1]))
    /\ UNCHANGED <<prepared, scn, uri, migration_id, clock, dirs,
                   active_migrations, pc, req, temp_dir, conc, current_phase,
                   dump, restore, log, ret, released, complete>>

NextUri == StripDatabase \/ StripAgain

SpecUri == InitUri /\ [][NextUri]_vars

(***************************************************************************)
(* Properties.                                                             *)
(***************************************************************************)
\* attempt a holds a workspace: acquired and not yet released
InFlight(a) == pc[a] \in {"try", "dumping", "restoring", "finally"}

\* migrate_db has returned or raised in this step
Leaves(a) ==
    /\ pc[a] \notin {"returned", "raised"}
    /\ pc'[a] \in {"returned", "raised"}

\* the child process is not running
Terminated(child) == child.st \in {"none", "nospawn", "exited"}

\* the child process was spawned
WasSpawned(child) == child.st \in {"running", "closed", "exited"}

\* the child process exited with a non-zero code
ExitedNonZero(child) == child.st = "exited" /\ child.code # 0

HasEvent(a, kind, tag) ==
    \E i \in DOMAIN log[a] : log[a][i].kind = kind /\ log[a][i].tag = tag

\* C1: once an attempt has returned or raised, on every exit path, the
\* workspace directory created for it no longer exists.
C1_WorkspaceGoneOnExit ==
    [][\A a \in Attempts : Leaves(a) => temp_dir'[a] \notin dirs']_vars

\* C2: two attempts in flight at the same time hold distinct workspace
\* directories.
C2_DistinctWorkspaces ==
    \A a, b \in Attempts :
        (a # b /\ InFlight(a) /\ InFlight(b)) => temp_dir[a] # temp_dir[b]

\* the events run_command emits
FromRunCommand(e) ==
    \/ e.kind \in {"DEBUG", "LINE"}
    \/ e.kind = "PHASE" /\ e.tag \in {"METADATA", "DATA", "INDEX"}
    \/ e.kind = "ERROR" /\ e.tag # "Migration Stopped"

\* C3: no event that run_command emits to the sink contains a non-empty
\* string of the redaction set as a substring.
C3_NoSecretInEvents ==
    \A a \in Attempts : \A i \in DOMAIN log[a] :
        FromRunCommand(log[a][i]) =>
            \A k \in DOMAIN redact_patterns[a] :
                redact_patterns[a][k] # <<>> =>
                    ~Contains(log[a][i].text, redact_patterns[a][k])

\* C4: every started attempt delivers exactly one migration_complete
\* event, when its task has finished; it is delivered only after every
\* child process of the attempt has terminated, and no log event of the
\* attempt is emitted after it.
C4_OneResultAfterChildren ==
    /\ [](\A a \in Attempts :
            /\ Len(complete[a]) = (IF pc[a] = "done" THEN 1 ELSE 0)
            /\ complete[a] # <<>> =>
                 Terminated(dump[a]) /\ Terminated(restore[a]))
    /\ [][\A a \in Attempts :
            complete[a] # <<>> =>
                log'[a] = log[a] /\ complete'[a] = complete[a]]_vars

C4_Witness ==
    \E a \in Attempts :
        /\ pc[a] = "done"
        /\ Len(complete[a]) = 1
        /\ dump[a].st = "exited"
        /\ restore[a].st = "exited"

\* C5: the restore child process is spawned only after the dump child
\* process has exited with code 0 and its output has been read to the end.
C5_RestoreAfterDump ==
    \A a \in Attempts :
        restore[a].st # "none" =>
            /\ dump[a].st = "exited"
            /\ dump[a].pipe = <<>>
            /\ dump[a].code = 0

C5_Witness ==
    \E a \in Attempts :
        /\ restore[a].st = "running"
        /\ dump[a].written > 0
        /\ dump[a].pipe = <<>>

\* C6: an attempt returns success=true, or emits the PHASE:SUCCESS marker,
\* only if its dump and its restore child process both ran and exited
\* with code 0.
C6_SuccessNeedsBothZero ==
    \A a \in Attempts :
        (ret[a].success \/ HasEvent(a, "PHASE", "SUCCESS")) =>
            /\ dump[a].st = "exited" /\ dump[a].code = 0
            /\ restore[a].st = "exited" /\ restore[a].code = 0

C6_Witness ==
    \E a \in Attempts :
        /\ ret[a].kind = "returned"
        /\ ret[a].success
        /\ HasEvent(a, "PHASE", "SUCCESS")

\* the attempt failed on a non-zero exit code of one of its children
FailedOnExit(a) ==
    /\ pc[a] \in {"finally", "returned", "done"}
    /\ (ExitedNonZero(dump[a]) \/ ExitedNonZero(restore[a]))

\* the non-zero exit code attempt a failed on
FailedCode(a) ==
    IF ExitedNonZero(dump[a]) THEN dump[a].code ELSE restore[a].code

\* the result of a failed child: success false, the code in the message,
\* and no later step
FailureReported(a) ==
    /\ ret[a].kind = "returned"
    /\ ~ret[a].success
    /\ Contains(ret[a].message, IntToStr(FailedCode(a)))
    /\ ExitedNonZero(dump[a]) => restore[a].st = "none"
    /\ ~HasEvent(a, "PHASE", "VALIDATION")
    /\ ~HasEvent(a, "PHASE", "SUCCESS")

\* C7 as stated: after a non-zero exit code c the result has success
\* false and a message containing c, no later step runs, and the
\* workspace is removed.
C7_Original ==
    /\ [](\A a \in Attempts : FailedOnExit(a) => FailureReported(a))
    /\ [][\A a \in Attempts :
            (FailedOnExit(a) /\ Leaves(a)) => temp_dir[a] \notin dirs']_vars

\* C7 amended: after a non-zero exit code c the result has success false
\* and a message containing c, no later step runs, and the release still
\* runs: the workspace is removed unless the deletion itself fails.
C7_ExitCodeFailure ==
    /\ [](\A a \in Attempts : FailedOnExit(a) => FailureReported(a))
    /\ [][\A a \in Attempts :
            (FailedOnExit(a) /\ Leaves(a)) =>
                /\ released'[a] # "none"
                /\ released'[a] # "failed" => temp_dir[a] \notin dirs']_vars

C7_Witness ==
    \E a \in Attempts :
        /\ pc[a] = "returned"
        /\ ExitedNonZero(restore[a])
        /\ released[a] = "removed"
        /\ temp_dir[a] \notin dirs

\* a request the Start state must reject
Malformed(data) ==
    \/ ~data.source.present
    \/ ~data.target.present
    \/ data.source.uri = NoUri
    \/ data.target.uri = NoUri
    \/ /\ data.mode = "SingleDatabase"
       /\ (data.source.dbname = <<>> \/ data.target.dbname = <<>>)

\* C8: a malformed request is rejected before a workspace directory is
\* created and before a child process is spawned.
C8_MalformedRejectedEarly ==
    \A a \in Attempts :
        (pc[a] # "idle" /\ Malformed(req[a])) =>
            /\ temp_dir[a] = NoStamp
            /\ dump[a].st = "none"
            /\ restore[a].st = "none"

\* C9: when the dump reported success and its output directory is absent,
\* the attempt fails without spawning the restore process.
C9_MissingDumpDirFails ==
    [][\A a \in Attempts :
        (/\ pc[a] = "dumping"
         /\ pc'[a] # "dumping"
         /\ dump[a].code = 0
         /\ temp_dir[a] \notin dirs) =>
            /\ ~WasSpawned(restore'[a])
            /\ pc'[a] = "finally"
            /\ ~ret'[a].success]_vars

\* the command carries --nsFrom <from>.* --nsTo <to>.*
HasRename(command, from, to) ==
    \E i \in DOMAIN command :
        /\ i + 3 <= Len(command)
        /\ command[i] = S_nsFrom
        /\ command[i + 1] = from \o S_dotStar
        /\ command[i + 2] = S_nsTo
        /\ command[i + 3] = to \o S_dotStar

\* C10: in single-database mode the restore command carries the rename
\* flags if and only if the source and target database names differ.
C10_RenameIffNamesDiffer ==
    \A a \in Attempts :
        (req[a].mode = "SingleDatabase" /\ WasSpawned(restore[a])) =>
            (HasRename(restore[a].cmd, req[a].source.dbname,
                       req[a].target.dbname)
               <=> req[a].source.dbname # req[a].target.dbname)

\* the fixed system set of the Discovery state
SystemDbs == {DbAdmin, <<"c","o","n","f","i","g">>, <<"l","o","c","a","l">>}

\* the databases the source lists at discovery time in the runs checked
DiscoveredDbs == {DbSales, DbHr, DbApp}

\* the namespace-include filter of a database
NsFilter(db) == S_nsInclude \o db \o S_dotStar

\* the namespace-include filters a command carries
Filters(command) ==
    {command[i] : i \in {k \in DOMAIN command :
                            StartsWith(command[k], S_nsInclude)}}

\* C11: for a whole-instance request with a selectedDatabases list, the
\* dump command carries a namespace-include filter for exactly the selected
\* names that the source lists at discovery time, and never one for a
\* system database.
C11_SelectedFiltersOnly ==
    \A a \in Attempts :
        (/\ req[a].mode = "WholeInstance"
         /\ req[a].databases # <<>>
         /\ dump[a].st # "none") =>
            /\ Filters(dump[a].cmd) =
                 {NsFilter(db) : db \in Range(req[a].databases)
                                         \cap DiscoveredDbs}
            /\ \A db \in SystemDbs : NsFilter(db) \notin Filters(dump[a].cmd)

\* the positions of the log where a call of run_command starts
CallStarts(a) == {i \in DOMAIN log[a] : log[a][i].kind = "DEBUG"}

\* the last position of the call of run_command that starts at position i
CallEnd(a, i) ==
    Greatest({j \in i..Len(log[a]) :
                \A k \in (i + 1)..j : /\ FromRunCommand(log[a][k])
                                       /\ log[a][k].kind # "DEBUG"})

\* the events of the n-th call of run_command of attempt a (1: the dump,
\* 2: the restore), <<>> before the call
CallEvents(a, n) ==
    IF Cardinality(CallStarts(a)) < n THEN <<>>
    ELSE LET i == IF n = 1 THEN Least(CallStarts(a))
                  ELSE Greatest(CallStarts(a))
         IN  SubSeq(log[a], i, CallEnd(a, i))

\* the child process of the n-th call
CallChild(a, n) == IF n = 1 THEN dump[a] ELSE restore[a]

IsMarker(e) == e.kind = "PHASE"
IsLine(e) == e.kind = "LINE"
Tags(events) == [i \in DOMAIN events |-> events[i].tag]
Texts(events) == [i \in DOMAIN events |-> events[i].text]

\* the categories of the phase events of a call, in order
Markers(a, n) == Tags(SelectSeq(CallEvents(a, n), IsMarker))

\* the lines of a child process that run_command has read
ReadLines(child) ==
    SubSeq(child.lines, 1, Len(child.lines) - Len(child.pipe))

IsCategory(c) == c # "NONE"

\* the marker categories of the lines, in order, line by marked line
Categories(lines) ==
    SelectSeq([i \in DOMAIN lines |-> Classify(Strip(lines[i]))], IsCategory)

\* the k-th smallest element of a set of integers
Nth(S, k) == CHOOSE i \in S : Cardinality({j \in S : j <= i}) = k

\* a sequence without the elements that repeat the one before them
ChangesAt(cats, at) == [k \in 1..Cardinality(at) |-> cats[Nth(at, k)]]
Changes(cats) ==
    \* the positions that open a run of equal elements
    ChangesAt(cats, {i \in DOMAIN cats : i = 1 \/ cats[i] # cats[i - 1]})

\* C12 as stated: within one call of run_command the phase event of a
\* marker category is emitted at most once.
C12_Original ==
    \A a \in Attempts, n \in {1, 2} :
        \A markers \in {Markers(a, n)} :
            \A j, k \in DOMAIN markers : j # k => markers[j] # markers[k]

\* C12 amended: within one call of run_command a phase event is emitted
\* for the first marked line and for every marked line whose category
\* differs from that of the marked line before it, and for no other line;
\* so two phase events in a row never carry the same category.
C12_PhaseOnChange ==
    \A a \in Attempts, n \in {1, 2} :
        \A markers \in {Markers(a, n)} :
            /\ markers = Changes(Categories(ReadLines(CallChild(a, n))))
            /\ \A j \in DOMAIN markers :
                  j > 1 => markers[j] # markers[j - 1]

C12_Witness ==
    \E a \in Attempts, n \in {1, 2} :
        /\ Markers(a, n) = <<"METADATA", "DATA", "METADATA">>
        /\ Categories(ReadLines(CallChild(a, n)))
             = <<"METADATA", "DATA", "METADATA">>

\* the place of a phase marker in the order Discovery, Dumping, Preparing,
\* Restoring, Metadata/Data/Index, Validation, Success/Failed
PhaseRank(tag) ==
    CASE tag = "DISCOVERY" -> 1
      [] tag = "DUMPING" -> 2
      [] tag = "PREPARING" -> 3
      [] tag = "RESTORING" -> 4
      [] tag \in {"METADATA", "DATA", "INDEX"} -> 5
      [] tag = "VALIDATION" -> 6
      [] OTHER -> 7

\* the phase markers of attempt a, in the order they were emitted
PhaseTags(a) == Tags(SelectSeq(log[a], IsMarker))

\* C13: the phase markers of one attempt never go back in the order
\* Discovery, Dumping, Preparing, Restoring, Metadata/Data/Index (in any
\* order among themselves), Validation, Success/Failed; no Metadata, Data
\* or Index marker comes before the Restoring marker.
C13_PhasesMonotone ==
    \A a \in Attempts :
        \A j, k \in DOMAIN PhaseTags(a) :
            j < k =>
                /\ PhaseRank(PhaseTags(a)[j]) <= PhaseRank(PhaseTags(a)[k])
                /\ PhaseRank(PhaseTags(a)[k]) = 5 =>
                     \E i \in 1..(k - 1) : PhaseTags(a)[i] = "RESTORING"

\* C14: a failure to delete the workspace directory during release never
\* raises out of the attempt and never changes or prevents its result:
\* migrate_db returns what its try or except clause returned, and that
\* result is the one delivered.
C14_ReleaseFailureSwallowed ==
    /\ [][\A a \in Attempts :
            (pc[a] = "finally" /\ pc'[a] # "finally") =>
                /\ pc'[a] = "returned"
                /\ ret'[a] = ret[a]]_vars
    /\ [](\A a \in Attempts :
            released[a] = "failed" =>
                /\ pc[a] \in {"returned", "done"}
                /\ ret[a].kind = "returned"
                /\ ret[a].success <=> HasEvent(a, "PHASE", "SUCCESS")
                /\ pc[a] = "done" =>
                     complete[a] = <<CompleteEvent(migration_id[a], ret[a])>>)

C14_Witness ==
    \E a, b \in Attempts :
        /\ released[a] = "failed" /\ released[b] = "failed"
        /\ pc[a] = "done" /\ pc[b] = "done"
        /\ complete[a][1].success
        /\ complete[a][1].message = S_completed
        /\ ~complete[b][1].success
        /\ complete[b][1].message = ProcessFailedMsg(1)

\* the executable of a child process of attempt a could not be spawned
SpawnFailed(a) == dump[a].st = "nospawn" \/ restore[a].st = "nospawn"

\* the command whose executable is missing
MissingCmd(a) == IF dump[a].st = "nospawn" THEN dump[a].cmd ELSE restore[a].cmd

\* the positions of the error events of attempt a that name the tool
ErrorsNaming(a, tool) ==
    {i \in DOMAIN log[a] :
        log[a][i].kind = "ERROR" /\ Contains(log[a][i].text, tool)}

\* the attempt ended with success=false and the tool-not-found message,
\* which is not the message of a non-zero exit
ToolFailureReported(a) ==
    /\ ret[a] = Returned(FALSE, ToolNotFoundMsg(MissingCmd(a)))
    /\ Contains(ret[a].message, MissingCmd(a)[1])
    /\ ~Contains(ret[a].message, S_processFailed)
    /\ ~HasEvent(a, "ERROR", "exited")
    /\ ~HasEvent(a, "ERROR", "execution failed")
    /\ pc[a] = "done" =>
         complete[a] = <<CompleteEvent(migration_id[a], ret[a])>>

\* C15 as stated: when the dump or restore executable is missing, exactly
\* one error event naming the tool is logged, and the attempt ends with
\* success=false carrying the tool-not-found message.
C15_Original ==
    \A a \in Attempts :
        SpawnFailed(a) =>
            /\ Cardinality(ErrorsNaming(a, MissingCmd(a)[1])) = 1
            /\ ToolFailureReported(a)

\* C15 amended: when the dump or restore executable is missing,
\* run_command logs exactly one error event naming the tool, migrate_db
\* logs one more, the Migration Stopped event that repeats the message,
\* and the attempt ends with success=false carrying that message.
C15_ToolNotFound ==
    \A a \in Attempts :
        SpawnFailed(a) =>
            /\ Cardinality({i \in ErrorsNaming(a, MissingCmd(a)[1]) :
                              FromRunCommand(log[a][i])}) = 1
            /\ Cardinality(ErrorsNaming(a, MissingCmd(a)[1])) = 2
            /\ log[a][Len(log[a])]
                 = StoppedEvent(ToolNotFoundMsg(MissingCmd(a)))
            /\ log[a][Len(log[a]) - 1]
                 = Event("ERROR", "tool not found",
                         ToolNotFoundMsg(MissingCmd(a)))
            /\ ToolFailureReported(a)

C15_Witness ==
    \E a, b \in Attempts :
        /\ dump[a].st = "nospawn" /\ pc[a] = "done"
        /\ restore[b].st = "nospawn" /\ pc[b] = "done"
        /\ complete[b][1].message = ToolNotFoundMsg(<<S_mongorestore>>)
        /\ complete[a][1].message = ToolNotFoundMsg(<<S_mongodump>>)

\* the argument that follows a flag of a command
ArgAfter(command, flag) ==
    command[Least({i \in DOMAIN command : command[i] = flag}) + 1]

\* the parallelism values of the interval [4, 16], as the tools read them
ClampedValues == {IntToStr(n) : n \in 4..16}

\* C16: the parallelism value passed to the dump tool lies in [4, 16]
\* whatever core count is reported (none, 0, 1, above 16), and the restore
\* tool of the same attempt is passed the same value, for both of its
\* parallelism flags.
C16_ParallelismClamped ==
    \A a \in Attempts :
        /\ dump[a].st # "none" =>
             ArgAfter(dump[a].cmd, S_numParallelCollections) \in ClampedValues
        /\ restore[a].st # "none" =>
             /\ ArgAfter(restore[a].cmd, S_numParallelCollections)
                  = ArgAfter(dump[a].cmd, S_numParallelCollections)
             /\ ArgAfter(restore[a].cmd, S_numInsertionWorkers)
                  = ArgAfter(dump[a].cmd, S_numParallelCollections)

C16_Witness ==
    \E a \in Attempts :
        /\ restore[a].st = "running"
        /\ ArgAfter(dump[a].cmd, S_numParallelCollections) = <<"1", "6">>
        /\ ArgAfter(restore[a].cmd, S_numInsertionWorkers) = <<"1", "6">>

\* the text of u before its first "?", all of u without one
BeforeOptions(u) ==
    IF InSeq("?", u) THEN Take(u, FirstOf(u, {"?"}, 1) - 1) ELSE u

\* "?" and the text of u after its first "?", nothing without one
OptionsOf(u) ==
    IF InSeq("?", u) THEN Drop(u, FirstOf(u, {"?"}, 1)) ELSE <<>>

\* the positions of the "/" that end an authority of u: they come after
\* the first "://" of the text before the options
AuthorityEnds(u) ==
    LET b == BeforeOptions(u)
        at == {c \in 1..(Len(b) - 2) : SubSeq(b, c, c + 2) = <<":", "/", "/">>}
    IN  IF at = {} THEN {}
        ELSE {p \in (Least(at) + 3)..Len(b) : b[p] = "/"}

\* what the split of the text gives for u: scheme://authority/ and the
\* options where u has that form, u itself where it has not
SplitResult(u) ==
    IF AuthorityEnds(u) = {} THEN u
    ELSE Take(u, Least(AuthorityEnds(u))) \o OptionsOf(u)

\* C17 as stated: get_base_uri applied twice gives what it gives applied
\* once, and on a parse error it returns its input unchanged.
C17_Original ==
    /\ Len(stripped) = 2 => stripped[2] = stripped[1]
    /\ (Len(stripped) >= 1 /\ UrlparseRaises(uri)) => stripped[1] = uri

\* C17 amended: get_base_uri applied twice gives what it gives applied
\* once; on a parse error it returns scheme://authority/ followed by the
\* "?" options of its input when the input has that form, and its input
\* unchanged otherwise.
C17_IdempotentFallback ==
    /\ Len(stripped) = 2 => stripped[2] = stripped[1]
    /\ (Len(stripped) >= 1 /\ UrlparseRaises(uri)) =>
          stripped[1] = SplitResult(uri)

C17_Witness ==
    /\ Len(stripped) = 2
    /\ UrlparseRaises(uri)
    /\ stripped[1] # uri
    /\ InSeq("?", stripped[1])

\* the result r keeps the scheme and the authority, has the root path and
\* keeps the query options q
StrippedOf(r, scheme, authority, q) ==
    LET root == Lower(scheme) \o <<":", "/", "/">> \o authority \o <<"/">>
        rest == Drop(r, Len(root) + 1)
    IN  /\ StartsWith(r, root)
        /\ IF q # <<>>
           THEN /\ StartsWith(rest, <<"?">> \o q)
                /\ (Len(rest) = Len(q) + 1 \/ rest[Len(q) + 2] = "#")
           ELSE rest = <<>> \/ rest[1] = "#"

\* C18: for a uri scheme://authority/database[?query][#fragment],
\* get_base_uri returns a uri with the same scheme (in lower case), the
\* same authority and the same query options, whose path is the root.
C18_DatabaseStripped ==
    Len(stripped) >= 1 =>
        \A sc \in UriSchemes, au \in UriAuthorities, db \in UriDatabases,
           q \in UriQueries, f \in UriFragments :
            uri = ComposeUri(sc, au, db, q, f) =>
                StrippedOf(stripped[1], sc, au, q)

C18_Witness ==
    /\ uri = <<"M",":","/","/","u",":","p","@","h",":","1","/","d","/","c",
               "?","x","?","y","#","f">>
    /\ Len(stripped) >= 1
    /\ stripped[1] = <<"m",":","/","/","u",":","p","@","h",":","1","/",
                       "?","x","?","y","#","f">>

NonEmpty(text) == text # <<>>

\* the non-empty lines among the lines, stripped, in order
Outputs(lines) == SelectSeq([i \in DOMAIN lines |-> Strip(lines[i])], NonEmpty)

\* the call of run_command on the n-th child process of attempt a is over
CallOver(a, n) ==
    /\ WasSpawned(CallChild(a, n))
    /\ pc[a] # (IF n = 1 THEN "dumping" ELSE "restoring")

\* the number of line events among the first i events
LinesUpTo(events, i) ==
    Cardinality({k \in 1..i : events[k].kind = "LINE"})

\* the events of one call: the debug event first, then the lines read so
\* far, each non-empty one once, redacted and in order, a phase event only
\* right before the line of its category, and error events only at the
\* end, after every line the child process wrote
CallWellFormed(events, outputs, child, patterns) ==
    /\ events[1].kind = "DEBUG"
    /\ \A i \in 2..Len(events) : events[i].kind \in {"PHASE", "LINE", "ERROR"}
    /\ Texts(SelectSeq(events, IsLine))
         = [i \in DOMAIN outputs |-> Redact(outputs[i], patterns)]
    /\ \A i \in DOMAIN events :
          events[i].kind = "PHASE" =>
              /\ i < Len(events)
              /\ events[i + 1].kind = "LINE"
              /\ events[i].tag = Classify(outputs[LinesUpTo(events, i + 1)])
    /\ \A i \in DOMAIN events :
          events[i].kind = "ERROR" =>
              /\ \A j \in i..Len(events) : events[j].kind = "ERROR"
              /\ child.pipe = <<>>

\* C19: for every child process run_command runs, the sink receives every
\* non-empty output line exactly once, redacted and in the order written,
\* also when the child then exits non-zero; run_command adds only the
\* debug event before the first line, phase events right before the line
\* that triggered them, and error events after the last line.
C19_LinesForwardedInOrder ==
    \A a \in Attempts, n \in {1, 2} :
        \A events \in {CallEvents(a, n)},
           outputs \in {Outputs(ReadLines(CallChild(a, n)))} :
            /\ events # <<>> =>
                 CallWellFormed(events, outputs, CallChild(a, n),
                                redact_patterns[a])
            /\ WasSpawned(CallChild(a, n)) => events # <<>>
            /\ CallOver(a, n) =>
                 /\ outputs = Outputs(CallChild(a, n).lines)
                 /\ Len(SelectSeq(events, IsLine)) = Len(outputs)

C19_Witness ==
    \E a \in Attempts :
        /\ CallOver(a, 2)
        /\ ExitedNonZero(restore[a])
        /\ restore[a].lines = <<LineDataUri, LineMetadata, LineDataUri>>
        /\ Len(SelectSeq(CallEvents(a, 2), IsLine)) = 3
        /\ Markers(a, 2) = <<"DATA", "METADATA", "DATA">>
        /\ HasEvent(a, "ERROR", "exited")

\* the attempt has started and its background task has not finished
Running(a) == pc[a] \notin {"idle", "rejected", "done"}

\* C20: the registry of active migrations holds the entry of every
\* attempt from its start until its task finishes, and no other entry:
\* an entry is removed on every path, the registry is empty once every
\* started attempt has completed, and the removal of one attempt's entry
\* leaves the entries of the others in place.
C20_RegistryTracksAttempts ==
    /\ \A a \in Attempts :
          Running(a) =>
              /\ migration_id[a] \in DOMAIN active_migrations
              /\ active_migrations[migration_id[a]].source = req[a].source.name
    /\ Cardinality(DOMAIN active_migrations)
         = Cardinality({a \in Attempts : Running(a)})

====
